---- MODULE Spec2Model ----
(***************************************************************************)
(* Model of IASService (srv/lib/ias-service.js): the directory lookup      *)
(* client with cursor pagination, offset fallback and a time-based cache.  *)
(*                                                                         *)
(* One IASService instance is shared by the callers in Callers.  Every     *)
(* `await` of the code is a position of a call (pc): a call suspended in   *)
(* cds.connect.to is at "connect", a call suspended in destination.send    *)
(* is at "send".  The code between two awaits runs atomically, as it does  *)
(* on the JavaScript event loop.                                           *)
(***************************************************************************)
EXTENDS Integers, Sequences, FiniteSets, TLC

\* ---------------------------------------------------------------- bounds
\* The program's PAGE_SIZE is 100, its loop guard 200 and its TTL 300000 ms;
\* the model scales them down and keeps every comparison of the code.
PAGE_SIZE == 2
SAFETY_MAX == 3
CACHE_TTL_MS == 2
\* number of clock ticks explored after the start of the run
MaxTicks == 2
\* number of getAllUsers calls of one run that go to the remote directory
MaxFetches == 2
\* number of onOpenApproverDialog invocations of one run
MaxOpens == 2
\* number of onApproverDialogSubmit invocations of one run
MaxSubmits == 2
\* number of requests to the application service of one run
MaxRequests == 2

Callers == {1, 2}
Users == {"u1", "u2"}
Tokens == {"c1", "c2"}

\* undefined / null of a string-valued field
Absent == "<absent>"
\* a response without the totalResults field
NoTotal == 0 - 1
\* JavaScript Infinity: larger than every startIndex the loop can reach
Infinity == 1000000
NoDest == "null"
Handle == "IAS_DEST"
USER_ATTRS == "userName,displayName,urn:sap:cloud:scim:schemas:extension:custom:2.0:User"

\* Date.now() at construction; real clocks are far beyond the TTL
StartTime == CACHE_TTL_MS + 1
MaxNow == StartTime + MaxTicks

\* largest totalResults a response reports: one more than SAFETY_MAX full pages
MaxTotal == PAGE_SIZE * SAFETY_MAX + 1

VARIABLES
  now,          \* Date.now()
  destination,  \* this.destination
  cache,        \* this._cache
  call,         \* per caller: position and locals of its getAllUsers call
  nfetch,       \* calls so far that started a traversal (names the arrays)
  last,         \* history: the call that completed most recently, as it ended
  first,        \* history: the result later cache reads are compared with
  invPending,   \* history: invalidateCache ran and no getAllUsers call since
  \* the approver dialog of the list view (part_000)
  dlg,          \* the JSONModel "dlg": token, busy, selected, options
  opens,        \* per onOpenApproverDialog invocation: position and locals
  ui,           \* the dialog control, localStorage, what was sent and shown
  \* the application service (part_001)
  db,           \* Applications (status_code) and Attachments of the database
  remote,       \* what BPA and DMS hold
  reqs          \* per request: its handler, position and outcome

\* the variables of the directory client, of the dialog, of the service
iasVars == <<now, destination, cache, call, nfetch, last, first, invPending>>
dlgVars == <<dlg, opens, ui>>
srvVars == <<db, remote, reqs>>

vars == <<now, destination, cache, call, nfetch, last, first, invPending,
          dlg, opens, ui, db, remote, reqs>>

\* ------------------------------------------------------------ data shapes
RECURSIVE SeqsUpTo(_, _)
SeqsUpTo(S, n) == IF n = 0 THEN {<<>>}
                  ELSE SeqsUpTo(S, n - 1) \cup [1..n -> S]

\* the Resources array of one response
Pages == SeqsUpTo(Users, PAGE_SIZE)
NoResources == [present |-> FALSE, items |-> <<>>]
ResourcesVals == {NoResources} \cup {[present |-> TRUE, items |-> p] : p \in Pages}
TokVals == {Absent, ""} \cup Tokens
TotalVals == {NoTotal} \cup (0..MaxTotal)

\* the directory of the concurrent runs answers with a prefix of its user
\* list: no record, one record or a full page
UserList == [i \in 1..PAGE_SIZE |-> IF i % 2 = 1 THEN "u1" ELSE "u2"]
PrefixPages == {SubSeq(UserList, 1, n) : n \in {0, 1, PAGE_SIZE}}
PrefixResources == {[present |-> TRUE, items |-> p] : p \in PrefixPages}

\* A user record as getUsersByCompany reads it: userName, displayName and
\* the block under the key EXT_CUSTOM, which holds the list `attributes` of
\* {name, value} entries. A block, a list or a value that is not there is
\* marked absent.
NoExt == [present |-> FALSE, attributes |-> [present |-> FALSE, list |-> <<>>]]
ExtNoAttributes == [present |-> TRUE, attributes |-> [present |-> FALSE, list |-> <<>>]]
Ext(list) == [present |-> TRUE, attributes |-> [present |-> TRUE, list |-> list]]
Attr(name, value) == [name |-> name, value |-> value]
UserRecord(userName, displayName, ext) ==
  [userName |-> userName, displayName |-> displayName, ext |-> ext]

\* the records of the directory of the company lookups: without the block,
\* without the list, with an empty list, with another attribute only, with
\* customAttribute1 in two spellings of the same company, without a value
UserRecords ==
  { UserRecord("n0", "No Block", NoExt),
    UserRecord("n1", "No List", ExtNoAttributes),
    UserRecord("n2", "Empty List", Ext(<<>>)),
    UserRecord("n3", "Other Attribute", Ext(<<Attr("customAttribute2", "ACME")>>)),
    UserRecord("a1", "Upper", Ext(<<Attr("customAttribute2", "acme"),
                                    Attr("customAttribute1", "ACME")>>)),
    UserRecord("a2", "Lower", Ext(<<Attr("customAttribute1", "acme")>>)),
    UserRecord("n4", "No Value", Ext(<<Attr("customAttribute1", Absent)>>)) }

\* the companyName arguments: undefined, '', and two non-empty names
Companies == {Absent, "", "ACME", "acme"}

RecordPages == SeqsUpTo(UserRecords, PAGE_SIZE)
RecordResources == {[present |-> TRUE, items |-> p] : p \in RecordPages}
RecordCursorResponses ==
  [Resources : RecordResources, nextCursor : {Absent}, NextCursor : {Absent},
   next_cursor : {Absent}, totalResults : {NoTotal}]
RecordOffsetResponses ==
  [Resources : RecordResources, nextCursor : {Absent}, NextCursor : {Absent},
   next_cursor : {Absent}, totalResults : {PAGE_SIZE + 1}]

\* responses of GET /Users; a field the traversal in progress never reads is
\* left out of the enumeration (totalResults in cursor mode, the cursor
\* fields in offset mode)
CursorResponses ==
  [Resources : ResourcesVals, nextCursor : TokVals, NextCursor : TokVals,
   next_cursor : TokVals, totalResults : {NoTotal}]
OffsetResponses ==
  [Resources : ResourcesVals, nextCursor : {Absent}, NextCursor : {Absent},
   next_cursor : {Absent}, totalResults : TotalVals]

\* the smaller response sets of the runs with two concurrent callers
LeanCursorResponses ==
  [Resources : PrefixResources, nextCursor : {Absent}, NextCursor : {Absent},
   next_cursor : {Absent}, totalResults : {NoTotal}]
LeanOffsetResponses ==
  [Resources : PrefixResources, nextCursor : {Absent}, NextCursor : {Absent},
   next_cursor : {Absent}, totalResults : {PAGE_SIZE + 1}]

\* the response sets of the runs that follow one call to its end
LiveCursorResponses ==
  [Resources : {NoResources} \cup PrefixResources, nextCursor : {Absent, "", "c1"},
   NextCursor : {Absent}, next_cursor : {Absent, "c2"}, totalResults : {NoTotal}]
LiveOffsetResponses ==
  [Resources : {NoResources} \cup PrefixResources, nextCursor : {Absent},
   NextCursor : {Absent}, next_cursor : {Absent},
   totalResults : {NoTotal, PAGE_SIZE + 1, MaxTotal}]

\* errors a rejected promise carries
ConnectErrors == {"ECONNECT"}
SendErrors == {"ENETWORK", "EHTTP"}
LeanSendErrors == {"ENETWORK"}
CURSOR_UNSUPPORTED == "CURSOR_UNSUPPORTED"
NoErr == "none"

\* identity of an array object: (number of the fetching call, traversal)
NoOid == <<0, "none">>

\* query parameter values before String(v)
Str(s) == [t |-> "str", s |-> s, n |-> 0]
Num(n) == [t |-> "num", s |-> "", n |-> n]
NoPath == <<>>

\* this._cache after construction and after _clearCache: {ts: 0, users: null}
NullCache == [ts |-> 0, set |-> FALSE, items |-> <<>>, oid |-> NoOid]

IdleCall ==
  [pc |-> "idle", who |-> 0, mode |-> "none", force |-> FALSE,
   \* the operation called, its companyName and what getUsersByCompany returned
   op |-> "none", company |-> Absent, out |-> <<>>,
   cursor |-> "", safety |-> 0, all |-> <<>>, oid |-> NoOid,
   startIndex |-> 0, totalResults |-> 0,
   req |-> NoPath, nreq |-> 0,
   ret |-> <<>>, retOid |-> NoOid, err |-> NoErr,
   \* history of the call, read by the properties only:
   \* served from the cache; error caught by getAllUsers; offset traversals run
   hit |-> FALSE, caught |-> NoErr, fallbacks |-> 0,
   \* per response of the traversal in progress: its records and whether the
   \* server gave a next-page token; per request: its path
   pages |-> <<>>, toks |-> <<>>, sent |-> <<>>,
   \* the next-page tokens the latest cursor response carried
   ltoks |-> {},
   \* the non-empty values of nextCursor, NextCursor, next_cursor of the
   \* latest cursor response, in this order of the fields
   lprio |-> <<>>,
   \* the latest response had no Resources array
   lnores |-> FALSE,
   \* the totalResults field of the latest response of the offset traversal,
   \* and the value all its responses agree on
   ltotal |-> NoTotal, tconst |-> NoTotal,
   \* the first response of the cursor traversal was a full page, no token
   probe |-> FALSE,
   \* at invocation: the state of the cache, whether invalidateCache came
   \* just before, whether the call follows a call whose result is in `first`
   class0 |-> "null", afterInv |-> FALSE,
   second |-> FALSE, ref |-> NullCache, refClean |-> FALSE]

\* the responses of a traversal reported different totalResults
MixedTotal == 0 - 2

\* `first` when no earlier result is to be compared with
NoFirst == [active |-> FALSE, clean |-> FALSE, items |-> <<>>, oid |-> NoOid, ts |-> 0]

\* ------------------------------------------------------------ the cache
\* mutants of _isCacheValid: a TTL one unit shorter; a cache that must hold
\* at least one record
IsCacheValidShortTTL == cache.set /\ now - cache.ts < CACHE_TTL_MS - 1
IsCacheValidNonEmpty ==
  cache.set /\ Len(cache.items) > 0 /\ now - cache.ts < CACHE_TTL_MS

\* _isCacheValid: users is truthy (any array, also []) and younger than TTL
IsCacheValid == cache.set /\ now - cache.ts < CACHE_TTL_MS

\* mutant of _setCache: the timestamp is not taken
SetCacheNoTs(items, oid) ==
  [ts |-> cache.ts, set |-> TRUE, items |-> items, oid |-> oid]

\* _setCache(users)
SetCache(items, oid) == [ts |-> now, set |-> TRUE, items |-> items, oid |-> oid]

\* _clearCache
ClearCache == [ts |-> 0, set |-> FALSE, items |-> <<>>, oid |-> NoOid]

\* ------------------------------------------------------------ requests
\* _buildUsersPath: entries with undefined, null or "" values are dropped
IsEmptyParam(v) == v.t = "str" /\ v.s \in {Absent, ""}
BuildUsersPath(params) == SelectSeq(params, LAMBDA e : ~IsEmptyParam(e[2]))

HasParam(path, k) == \E i \in 1..Len(path) : path[i][1] = k
Param(path, k) == path[CHOOSE i \in 1..Len(path) : path[i][1] = k][2]

\* _send(path): await this.init(), then destination.send. init() connects
\* when this.destination is not set yet, otherwise the request goes out.
Send(st, path) ==
  [st EXCEPT !.pc = IF destination = NoDest THEN "connect" ELSE "send",
             !.req = path, !.nreq = @ + 1, !.sent = Append(@, path)]

\* the traversal handed its array to getAllUsers: _setCache(users); return users
Fetched(st) ==
  [st EXCEPT !.pc = "returned", !.ret = st.all, !.retOid = st.oid]

\* an exception leaves getAllUsers
Raise(st, e) == [st EXCEPT !.pc = "threw", !.err = e]

\* ------------------------------------------------- _fetchAllUsersByStartIndex
\* mutant of the loop condition: `<` for `<=`
OffsetLoopStrict(st) ==
  IF st.startIndex < st.totalResults
  THEN LET s == st.safety + 1 IN
       IF s > SAFETY_MAX
       THEN Fetched([st EXCEPT !.safety = s])
       ELSE Send([st EXCEPT !.safety = s],
                 BuildUsersPath(<< <<"startIndex", Num(st.startIndex)>>,
                                   <<"count", Num(PAGE_SIZE)>>,
                                   <<"attributes", Str(USER_ATTRS)>> >>))
  ELSE Fetched(st)

\* mutant of the loop guard: one more iteration is let through
OffsetLoopLateGuard(st) ==
  IF st.startIndex <= st.totalResults
  THEN LET s == st.safety + 1 IN
       IF s > SAFETY_MAX + 1
       THEN Fetched([st EXCEPT !.safety = s])
       ELSE Send([st EXCEPT !.safety = s],
                 BuildUsersPath(<< <<"startIndex", Num(st.startIndex)>>,
                                   <<"count", Num(PAGE_SIZE)>>,
                                   <<"attributes", Str(USER_ATTRS)>> >>))
  ELSE Fetched(st)

\* one pass over `while (startIndex <= totalResults)` up to the next await
OffsetLoop(st) ==
  IF st.startIndex <= st.totalResults
  THEN LET s == st.safety + 1 IN
       IF s > SAFETY_MAX
       THEN Fetched([st EXCEPT !.safety = s])
       ELSE Send([st EXCEPT !.safety = s],
                 BuildUsersPath(<< <<"startIndex", Num(st.startIndex)>>,
                                   <<"count", Num(PAGE_SIZE)>>,
                                   <<"attributes", Str(USER_ATTRS)>> >>))
  ELSE Fetched(st)

\* mutant of the fallback: the records of the cursor attempt are kept
StartOffsetKeepAll(st) ==
  OffsetLoop([st EXCEPT !.mode = "offset",
                        !.oid = <<st.oid[1], "offset">>,
                        !.startIndex = 1, !.totalResults = Infinity,
                        !.safety = 0, !.fallbacks = @ + 1,
                        !.probe = /\ Len(st.pages) > 0
                                  /\ Len(st.pages[1]) = PAGE_SIZE
                                  /\ ~st.toks[1],
                        !.pages = <<>>, !.toks = <<>>, !.sent = <<>>,
                        !.ltoks = {}, !.lprio = <<>>, !.lnores = FALSE])

StartOffset(st) ==
  OffsetLoop([st EXCEPT !.mode = "offset", !.all = <<>>,
                        !.oid = <<st.oid[1], "offset">>,
                        !.startIndex = 1, !.totalResults = Infinity,
                        !.safety = 0, !.fallbacks = @ + 1,
                        !.probe = /\ Len(st.pages) > 0
                                  /\ Len(st.pages[1]) = PAGE_SIZE
                                  /\ ~st.toks[1],
                        !.pages = <<>>, !.toks = <<>>, !.sent = <<>>,
                        !.ltoks = {}, !.lprio = <<>>, !.lnores = FALSE])

\* Number(res?.totalResults ?? 0)
TotalOf(res) == IF res.totalResults = NoTotal THEN 0 ELSE res.totalResults

\* res?.Resources || []
ItemsOf(res) == IF res.Resources.present THEN res.Resources.items ELSE <<>>

\* mutant of the loop body: no `break` on an empty page
OffsetAfterResponseNoEmptyBreak(st, res) ==
  LET users == ItemsOf(res)
      st1 == [st EXCEPT !.all = @ \o users, !.totalResults = TotalOf(res),
                        !.pages = Append(@, users),
                        !.lnores = ~res.Resources.present,
                        !.ltotal = res.totalResults,
                        !.tconst = IF Len(st.pages) = 0 \/ @ = res.totalResults
                                   THEN res.totalResults ELSE MixedTotal]
  IN OffsetLoop([st1 EXCEPT !.startIndex = @ + PAGE_SIZE])

OffsetAfterResponse(st, res) ==
  LET users == ItemsOf(res)
      st1 == [st EXCEPT !.all = @ \o users, !.totalResults = TotalOf(res),
                        !.pages = Append(@, users),
                        !.lnores = ~res.Resources.present,
                        !.ltotal = res.totalResults,
                        !.tconst = IF Len(st.pages) = 0 \/ @ = res.totalResults
                                   THEN res.totalResults ELSE MixedTotal]
  IN IF Len(users) = 0
     THEN Fetched(st1)
     ELSE OffsetLoop([st1 EXCEPT !.startIndex = @ + PAGE_SIZE])

\* ---------------------------------------------------- _fetchAllUsersByCursor
\* mutant of the catch of getAllUsers: the error is thrown on
CatchCursorRethrow(st, e) == [st EXCEPT !.pc = "threw", !.err = e]

\* the catch of getAllUsers: whatever the cursor traversal threw, the offset
\* traversal runs
CatchCursor(st, e) == StartOffset([st EXCEPT !.caught = e])

\* mutant of the loop guard: `>=` for `>`
CursorLoopOffByOne(st) ==
  LET s == st.safety + 1 IN
  IF s >= SAFETY_MAX
  THEN Fetched([st EXCEPT !.safety = s])
  ELSE Send([st EXCEPT !.safety = s],
            BuildUsersPath(<< <<"cursor", Str(st.cursor)>>,
                              <<"count", Num(PAGE_SIZE)>>,
                              <<"attributes", Str(USER_ATTRS)>> >>))

\* one pass from the top of `while (true)` up to the next await
CursorLoop(st) ==
  LET s == st.safety + 1 IN
  IF s > SAFETY_MAX
  THEN Fetched([st EXCEPT !.safety = s])
  ELSE Send([st EXCEPT !.safety = s],
            BuildUsersPath(<< <<"cursor", Str(st.cursor)>>,
                              <<"count", Num(PAGE_SIZE)>>,
                              <<"attributes", Str(USER_ATTRS)>> >>))

StartCursor(st) ==
  CursorLoop([st EXCEPT !.mode = "cursor", !.all = <<>>,
                        !.cursor = "", !.safety = 0])

Truthy(v) == v \notin {Absent, ""}

\* the server put a next-page token into the response, under any spelling
GaveToken(res) ==
  \E f \in {"nextCursor", "NextCursor", "next_cursor"} : res[f] \notin {Absent, ""}

\* the tokens of the response, whatever the spelling of their field
TokensOf(res) ==
  {res[f] : f \in {"nextCursor", "NextCursor", "next_cursor"}} \ {Absent, ""}

\* the non-empty token values of the response in the order of the fields
\* nextCursor, NextCursor, next_cursor
TokenFields(res) ==
  SelectSeq(<<res.nextCursor, res.NextCursor, res.next_cursor>>,
            LAMBDA v : v \notin {Absent, ""})

\* mutant of the token lookup: NextCursor is read before nextCursor
NextCursorOfOtherOrder(res) ==
  IF res.NextCursor \notin {Absent, ""} THEN res.NextCursor
  ELSE IF res.nextCursor \notin {Absent, ""} THEN res.nextCursor
  ELSE IF res.next_cursor \notin {Absent, ""} THEN res.next_cursor
  ELSE Absent

\* res?.nextCursor || res?.NextCursor || res?.next_cursor || null
NextCursorOf(res) ==
  IF Truthy(res.nextCursor) THEN res.nextCursor
  ELSE IF Truthy(res.NextCursor) THEN res.NextCursor
  ELSE IF Truthy(res.next_cursor) THEN res.next_cursor
  ELSE Absent

\* mutant of the loop body: `continue` without `cursor = nextCursor`
CursorAfterResponseKeepCursor(st, res) ==
  LET users == ItemsOf(res)
      nextCursor == NextCursorOf(res)
      st1 == [st EXCEPT !.all = @ \o users,
                        !.pages = Append(@, users),
                        !.toks = Append(@, GaveToken(res)),
                        !.ltoks = TokensOf(res),
                        !.lprio = TokenFields(res),
                        !.lnores = ~res.Resources.present]
  IN IF Truthy(nextCursor)
     THEN CursorLoop(st1)
     ELSE IF Len(users) < PAGE_SIZE
     THEN Fetched(st1)
     ELSE IF Len(users) = PAGE_SIZE /\ st1.safety = 1
     THEN CatchCursor(st1, CURSOR_UNSUPPORTED)
     ELSE CursorLoop(st1)

\* mutant of the loop body: the last-page test comes before the push
CursorAfterResponseNoLast(st, res) ==
  LET users == ItemsOf(res)
      nextCursor == NextCursorOf(res)
      hist == [st EXCEPT !.pages = Append(@, users),
                         !.toks = Append(@, GaveToken(res)),
                         !.ltoks = TokensOf(res),
                         !.lprio = TokenFields(res),
                         !.lnores = ~res.Resources.present]
      st1 == [hist EXCEPT !.all = @ \o users]
  IN IF Truthy(nextCursor)
     THEN CursorLoop([st1 EXCEPT !.cursor = nextCursor])
     ELSE IF Len(users) < PAGE_SIZE
     THEN Fetched(hist)
     ELSE IF Len(users) = PAGE_SIZE /\ st1.safety = 1
     THEN CatchCursor(st1, CURSOR_UNSUPPORTED)
     ELSE CursorLoop(st1)

CursorAfterResponse(st, res) ==
  LET users == ItemsOf(res)
      nextCursor == NextCursorOf(res)
      st1 == [st EXCEPT !.all = @ \o users,
                        !.pages = Append(@, users),
                        !.toks = Append(@, GaveToken(res)),
                        !.ltoks = TokensOf(res),
                        !.lprio = TokenFields(res),
                        !.lnores = ~res.Resources.present]
  IN IF Truthy(nextCursor)
     THEN CursorLoop([st1 EXCEPT !.cursor = nextCursor])
     ELSE IF Len(users) < PAGE_SIZE
     THEN Fetched(st1)
     ELSE IF Len(users) = PAGE_SIZE /\ st1.safety = 1
     THEN CatchCursor(st1, CURSOR_UNSUPPORTED)
     ELSE CursorLoop(st1)

\* an exception thrown inside a traversal
ThrowIn(st, e) ==
  IF st.mode = "cursor" THEN CatchCursor(st, e) ELSE Raise(st, e)

\* ------------------------------------------------------------ getAllUsers
\* mutant of getAllUsers: forceRefresh is not looked at
GetAllUsersIgnoreForce(st, forceRefresh) ==
  IF IsCacheValid
  THEN [st EXCEPT !.force = forceRefresh, !.pc = "returned",
                  !.ret = cache.items, !.retOid = cache.oid, !.hit = TRUE]
  ELSE StartCursor([st EXCEPT !.force = forceRefresh,
                              !.oid = <<nfetch + 1, "cursor">>])

GetAllUsers(st, forceRefresh) ==
  IF ~forceRefresh /\ IsCacheValid
  THEN [st EXCEPT !.force = forceRefresh, !.pc = "returned",
                  !.ret = cache.items, !.retOid = cache.oid, !.hit = TRUE]
  ELSE StartCursor([st EXCEPT !.force = forceRefresh,
                              !.oid = <<nfetch + 1, "cursor">>])

\* the state of the cache at an invocation, told without _isCacheValid
CacheClass ==
  IF ~cache.set THEN "null"
  ELSE IF now - cache.ts >= CACHE_TTL_MS THEN "stale"
  ELSE IF Len(cache.items) = 0 THEN "empty"
  ELSE "fresh"

\* the history fields a call starts with
Invoked(forceRefresh) ==
  LET follows == /\ ~forceRefresh
                 /\ first.active
                 /\ now - first.ts < CACHE_TTL_MS
  IN [IdleCall EXCEPT !.op = "getAllUsers",
                      !.class0 = CacheClass,
                      !.afterInv = invPending /\ ~forceRefresh,
                      !.second = follows,
                      !.ref = IF follows
                              THEN [NullCache EXCEPT !.items = first.items,
                                                     !.oid = first.oid]
                              ELSE NullCache,
                      !.refClean = follows /\ first.clean]

\* `first` after the call that ended as st, with the cache then being c1:
\* the result of a call without forceRefresh is what the following calls are
\* compared with; a call that was already in progress when `first` was taken
\* and writes the cache inside its window makes it unclean
FirstAfter(st, c1) ==
  IF st.pc # "returned" THEN first
  ELSE IF st.force THEN NoFirst
  ELSE IF st.second \/ st.hit \/ ~first.active \/ now - first.ts >= CACHE_TTL_MS
  THEN [active |-> TRUE, clean |-> TRUE, items |-> st.ret, oid |-> st.retOid,
        ts |-> c1.ts]
  ELSE [first EXCEPT !.clean = FALSE]

\* ------------------------------------------------------ getUsersByCompany
\* mutant of _getCompanyValue: the name of the attribute is not looked at
GetCompanyValueAnyName(user) ==
  LET attrs == IF user.ext.present /\ user.ext.attributes.present
               THEN user.ext.attributes.list ELSE <<>>
  IN IF Len(attrs) = 0 THEN Absent ELSE attrs[1].value

\* _getCompanyValue: the value of the first entry named customAttribute1 of
\* user[EXT_CUSTOM]?.attributes || [], undefined when there is none
GetCompanyValue(user) ==
  LET attrs == IF user.ext.present /\ user.ext.attributes.present
               THEN user.ext.attributes.list ELSE <<>>
      hits == {i \in 1..Len(attrs) : attrs[i].name = "customAttribute1"}
  IN IF hits = {} THEN Absent
     ELSE attrs[CHOOSE i \in hits : \A j \in hits : i <= j].value

\* _mapLite
MapLite(user) == [displayName |-> user.displayName, userName |-> user.userName]

\* users.filter(u => _getCompanyValue(u) === companyName).map(_mapLite)
FilterByCompany(users, companyName) ==
  LET kept == SelectSeq(users, LAMBDA u : GetCompanyValue(u) = companyName)
  IN [i \in 1..Len(kept) |-> MapLite(kept[i])]

\* mutant of the guard of getUsersByCompany: only undefined is refused
IsNoCompanyOnlyUndefined(companyName) == companyName = Absent

\* !companyName
IsNoCompany(companyName) == companyName \in {Absent, ""}

\* getUsersByCompany after `await this.getAllUsers(...)`: a call that ended by
\* returning hands back the filtered projection, an exception passes through
Resume(st) ==
  IF st.op = "getUsersByCompany" /\ st.pc = "returned"
  THEN [st EXCEPT !.out = FilterByCompany(st.ret, st.company)]
  ELSE st

\* mutant of the way out of getAllUsers: a failed call clears the cache
CommitClearOnError(c, st) ==
  LET done == st.pc \in {"returned", "threw"}
      writes == st.pc = "returned" /\ ~st.hit
      c1 == IF writes THEN SetCache(st.ret, st.retOid)
            ELSE IF st.pc = "threw" THEN ClearCache ELSE cache
  IN /\ cache' = c1
     /\ last' = IF done THEN Resume([st EXCEPT !.who = c]) ELSE last
     /\ first' = IF done THEN FirstAfter(st, c1) ELSE first
     /\ call' = [call EXCEPT ![c] = IF done THEN IdleCall ELSE st]

\* the state after a step of caller c that leaves its call as st. A call that
\* came back from a traversal has stored its array by _setCache on the way
\* out; a completed call is kept in `last` and its caller is idle again.
Commit(c, st) ==
  LET done == st.pc \in {"returned", "threw"}
      writes == st.pc = "returned" /\ ~st.hit
      c1 == IF writes THEN SetCache(st.ret, st.retOid) ELSE cache
  IN /\ cache' = c1
     /\ last' = IF done THEN Resume([st EXCEPT !.who = c]) ELSE last
     /\ first' = IF done THEN FirstAfter(st, c1) ELSE first
     /\ call' = [call EXCEPT ![c] = IF done THEN IdleCall ELSE st]

\* ======================================================================
\* The approver dialog (part_000)
\* ======================================================================
Slots == {"approver1", "approver2", "approver3"}

\* { id: "", name: "" }
NoSel == [id |-> "", name |-> ""]

\* a value of a row or of the stored cache under a slot: an {id, name}
\* object, or nothing (undefined)
Val(id, name) == [present |-> TRUE, id |-> id, name |-> name]
NoVal == [present |-> FALSE, id |-> "", name |-> ""]

\* a candidate of a Select
Opt(id, name) == [id |-> id, name |-> name]

\* localStorage without the item APPROVER_CACHE_V1
NoItem == [present |-> FALSE, slots |-> [s \in Slots |-> NoVal]]

\* the item as an earlier session left it: approver "z" is no candidate any
\* more, approver "a" is stored under an old name
OldCache ==
  [present |-> TRUE,
   slots |-> [s \in Slots |-> IF s = "approver1" THEN Val("a", "Old A")
                              ELSE IF s = "approver3" THEN Val("z", "Z")
                              ELSE NoVal]]

\* the rows selected in the list, as _getSelectedRows returns them
Row1 ==
  [s \in Slots |-> IF s = "approver1" THEN Val("b", "B")
                   ELSE IF s = "approver2" THEN Val("a", "A")
                   ELSE NoVal]
Row2 ==
  [s \in Slots |-> IF s = "approver3" THEN Val("b", "B") ELSE NoVal]
RowSelections == {<<>>, <<Row1>>, <<Row2>>, <<Row1, Row2>>}

\* the candidate lists the backend answers with; a slot may be missing, a
\* list may name an id twice
NoList == [present |-> FALSE, list |-> <<>>]
List(l) == [present |-> TRUE, list |-> l]
Candidates ==
  [approver1 : {NoList, List(<<Opt("a", "A")>>),
                List(<<Opt("a", "A"), Opt("b", "B"), Opt("a", "A2")>>)},
   approver2 : {List(<<>>), List(<<Opt("a", "A"), Opt("b", "B")>>)},
   approver3 : {NoList, List(<<Opt("b", "B")>>)}]

\* oDbOptions of the catch branch: three empty lists
EmptyCandidates == [s \in Slots |-> List(<<>>)]

\* the data of the model set by _initApproverDialogModel
InitDlgModel ==
  [token |-> 0, busy |-> FALSE,
   selected |-> [s \in Slots |-> NoSel],
   options |-> [s \in Slots |-> <<>>]]

\* an onOpenApproverDialog invocation that has not begun; `res` keeps the
\* candidates its fetch resolved with and `rejected` that it rejected (history)
IdleOpen ==
  [pc |-> "idle", token |-> 0, rejected |-> FALSE, res |-> EmptyCandidates]

NoPayload == [s \in Slots |-> NoSel]

\* the dialog control, localStorage and the effects of the handlers:
\* openedBy is the token of the invocation that called open() last, sent the
\* payloads given to _submitApply, toasts the messages shown
ClosedUi(item) ==
  [open |-> FALSE, openedBy |-> 0, storage |-> item,
   payload |-> NoPayload, sent |-> 0, toasts |-> 0, msg |-> ""]

\* the positions of the elements of S in increasing order
RECURSIVE Ascending(_)
Ascending(S) ==
  IF S = {} THEN <<>>
  ELSE LET lo == CHOOSE x \in S : \A y \in S : x <= y
       IN <<lo>> \o Ascending(S \ {lo})

\* _uniqueById: a Map keyed by id keeps the place of the first entry of an
\* id and the value of its last entry
UniqueById(list) ==
  LET firsts == {i \in 1..Len(list) :
                   \A j \in 1..(i - 1) : list[j].id # list[i].id}
      ord == Ascending(firsts)
      LastOf(id) == CHOOSE j \in 1..Len(list) :
                      /\ list[j].id = id
                      /\ \A k \in (j + 1)..Len(list) : list[k].id # id
  IN [k \in 1..Len(ord) |-> list[LastOf(list[ord[k]].id)]]

\* _mergeOptions: db[slot] || [] made unique, per slot
MergeOptions(oDb) ==
  [s \in Slots |-> UniqueById(IF oDb[s].present THEN oDb[s].list ELSE <<>>)]

\* _loadApproverCache: the parsed item, null when there is none
LoadApproverCache == ui.storage

\* _calcDefaultApprovers: the value of the single selected row, else the
\* value of the cache, else { id: "", name: "" }
CalcDefaultApprovers(rows, oCache) ==
  LET single == Len(rows) = 1
      pick(slot) ==
        LET fromRow == IF single THEN rows[1][slot] ELSE NoVal
            fromCache == IF oCache.present THEN oCache.slots[slot] ELSE NoVal
            v == IF single /\ fromRow.present THEN fromRow ELSE fromCache
        IN IF v.present THEN [id |-> v.id, name |-> v.name] ELSE NoSel
  IN [s \in Slots |-> pick(s)]

\* _isSelectedInOptions
IsSelectedInOptions(slot) ==
  LET id == dlg.selected[slot].id IN
  \/ id = ""
  \/ \E i \in 1..Len(dlg.options[slot]) : dlg.options[slot][i].id = id

\* mutant of _validateApproversBeforeSubmit: approver3 is not checked
ValidateApproversSkipThird ==
  IF dlg.selected["approver1"].id = ""
  THEN [ok |-> FALSE, msg |-> "approver1 required"]
  ELSE IF ~IsSelectedInOptions("approver1")
  THEN [ok |-> FALSE, msg |-> "approver1 not a candidate"]
  ELSE IF dlg.selected["approver2"].id # "" /\ ~IsSelectedInOptions("approver2")
  THEN [ok |-> FALSE, msg |-> "approver2 not a candidate"]
  ELSE [ok |-> TRUE, msg |-> ""]

\* _validateApproversBeforeSubmit
ValidateApproversBeforeSubmit ==
  IF dlg.selected["approver1"].id = ""
  THEN [ok |-> FALSE, msg |-> "approver1 required"]
  ELSE IF ~IsSelectedInOptions("approver1")
  THEN [ok |-> FALSE, msg |-> "approver1 not a candidate"]
  ELSE IF dlg.selected["approver2"].id # "" /\ ~IsSelectedInOptions("approver2")
  THEN [ok |-> FALSE, msg |-> "approver2 not a candidate"]
  ELSE IF dlg.selected["approver3"].id # "" /\ ~IsSelectedInOptions("approver3")
  THEN [ok |-> FALSE, msg |-> "approver3 not a candidate"]
  ELSE [ok |-> TRUE, msg |-> ""]

\* list.find(x => x.id === id) found nothing: undefined
NoHit == [id |-> "<undefined>", name |-> "<undefined>"]

\* _pickIdNameFromOptions
PickIdNameFromOptions(slot) ==
  LET id == dlg.selected[slot].id
      list == dlg.options[slot]
      hits == {i \in 1..Len(list) : list[i].id = id}
  IN IF id = "" THEN NoSel
     ELSE IF hits = {} THEN NoHit
     ELSE list[CHOOSE i \in hits : \A j \in hits : i <= j]

\* ======================================================================
\* The application service (part_001) with BPAService and DMSService
\* ======================================================================
Apps == {"A1"}
AttachmentIds == {"att1", "att2"}

\* the status_code a handler writes after its BPA call
StatusAfter(kind) ==
  IF kind = "submit" THEN "SUBMITTED"
  ELSE IF kind = "withdraw" THEN "WITHDRAWN"
  ELSE "DISCARDED"

\* the BPA action a handler calls: /Applications('id')/Submit, ...
BpaAction(kind) ==
  IF kind = "submit" THEN "Submit"
  ELSE IF kind = "withdraw" THEN "Withdraw"
  ELSE "Discard"

StatusKinds == {"submit", "withdraw", "discard"}

\* no row of Attachments: SELECT.one yields null
NoAttachment == [exists |-> FALSE, fileName |-> "", dmsDocumentId |-> ""]

\* the database at the start: every application is a draft, att1 is an
\* attachment stored in DMS as doc1, there is no row att2
NewApplications == [a \in Apps |-> "DRAFT"]
InitialAttachments ==
  [i \in AttachmentIds |->
     IF i = "att1"
     THEN [exists |-> TRUE, fileName |-> "f1.pdf", dmsDocumentId |-> "doc1"]
     ELSE NoAttachment]

\* a request slot without request
IdleReq ==
  [pc |-> "idle", kind |-> "none", key |-> "",
   attachment |-> NoAttachment,
   \* req.error calls in their order; the value the handler returned
   errors |-> <<>>, result |-> "",
   \* history: the BPA / DMS call of the handler resolved
   called |-> FALSE, remoteOk |-> FALSE]

\* ------------------------------------------------------------ actions
InitIas ==
  /\ now = StartTime
  /\ destination = NoDest
  /\ cache = NullCache
  /\ call = [c \in Callers |-> IdleCall]
  /\ nfetch = 0
  /\ last = IdleCall
  /\ first = NoFirst
  /\ invPending = FALSE

InitDlg(item) ==
  /\ dlg = InitDlgModel
  /\ opens = [i \in 1..MaxOpens |-> IdleOpen]
  /\ ui = ClosedUi(item)

InitSrv(statuses) ==
  /\ db = [status |-> statuses, attachments |-> InitialAttachments]
  /\ remote = [bpa |-> {}, dms |-> {"doc1"}]
  /\ reqs = [r \in 1..MaxRequests |-> IdleReq]

Init ==
  /\ InitIas
  /\ InitDlg(NoItem)
  /\ InitSrv(NewApplications)

\* caller c is in getAllUsers, which ran up to its first await and left the
\* call as st
Start(c, st, forceRefresh) ==
  /\ st.hit \/ nfetch < MaxFetches
  /\ nfetch' = IF st.hit THEN nfetch ELSE nfetch + 1
  /\ IF forceRefresh
     THEN /\ cache' = cache
          /\ last' = last
          /\ first' = NoFirst
          /\ call' = [call EXCEPT ![c] = st]
     ELSE Commit(c, st)
  /\ invPending' = FALSE
  /\ UNCHANGED <<now, destination, dlgVars, srvVars>>

\* getAllUsers({forceRefresh}) up to its first await
Call(c, forceRefresh) ==
  /\ call[c].pc = "idle"
  /\ Start(c, GetAllUsers(Invoked(forceRefresh), forceRefresh), forceRefresh)

\* getUsersByCompany(companyName, {forceRefresh}) up to its first await:
\* `return []` for no companyName, otherwise it is inside getAllUsers
GetUsersByCompany(c, companyName, forceRefresh) ==
  /\ call[c].pc = "idle"
  /\ IF IsNoCompany(companyName)
     THEN /\ last' = [IdleCall EXCEPT !.op = "getUsersByCompany",
                                      !.company = companyName,
                                      !.force = forceRefresh,
                                      !.class0 = CacheClass,
                                      !.who = c, !.pc = "returned",
                                      !.out = <<>>]
          /\ UNCHANGED <<now, destination, cache, call, nfetch, first,
                         invPending, dlgVars, srvVars>>
     ELSE Start(c, [GetAllUsers(Invoked(forceRefresh), forceRefresh)
                      EXCEPT !.op = "getUsersByCompany",
                             !.company = companyName],
                forceRefresh)

\* cds.connect.to resolved: this.destination = handle; the request goes out
ConnectOk(c) ==
  /\ call[c].pc = "connect"
  /\ destination' = Handle
  /\ call' = [call EXCEPT ![c].pc = "send"]
  /\ UNCHANGED <<now, cache, nfetch, last, first, invPending, dlgVars, srvVars>>

\* cds.connect.to rejected: _send throws inside the traversal
ConnectFail(c, e) ==
  /\ call[c].pc = "connect"
  /\ Commit(c, ThrowIn(call[c], e))
  /\ UNCHANGED <<now, destination, nfetch, invPending, dlgVars, srvVars>>

\* destination.send rejected
SendFail(c, e) ==
  /\ call[c].pc = "send"
  /\ Commit(c, ThrowIn(call[c], e))
  /\ UNCHANGED <<now, destination, nfetch, invPending, dlgVars, srvVars>>

\* destination.send resolved with res inside _fetchAllUsersByCursor
CursorResponse(c, res) ==
  /\ call[c].pc = "send"
  /\ call[c].mode = "cursor"
  /\ Commit(c, CursorAfterResponse(call[c], res))
  /\ UNCHANGED <<now, destination, nfetch, invPending, dlgVars, srvVars>>

\* destination.send resolved with res inside _fetchAllUsersByStartIndex
OffsetResponse(c, res) ==
  /\ call[c].pc = "send"
  /\ call[c].mode = "offset"
  /\ Commit(c, OffsetAfterResponse(call[c], res))
  /\ UNCHANGED <<now, destination, nfetch, invPending, dlgVars, srvVars>>

\* invalidateCache()
InvalidateCache ==
  /\ cache' = ClearCache
  /\ first' = NoFirst
  /\ invPending' = TRUE
  /\ UNCHANGED <<now, destination, call, nfetch, last, dlgVars, srvVars>>

\* the clock advances
Tick ==
  /\ now < MaxNow
  /\ now' = now + 1
  /\ UNCHANGED <<destination, cache, call, nfetch, last, first, invPending, dlgVars, srvVars>>

\* two callers share the instance; the directory answers from the lean sets
Next ==
  \/ \E c \in Callers, f \in BOOLEAN : Call(c, f)
  \/ \E c \in Callers : ConnectOk(c)
  \/ \E c \in Callers, e \in ConnectErrors : ConnectFail(c, e)
  \/ \E c \in Callers, e \in LeanSendErrors : SendFail(c, e)
  \/ \E c \in Callers, res \in LeanCursorResponses : CursorResponse(c, res)
  \/ \E c \in Callers, res \in LeanOffsetResponses : OffsetResponse(c, res)
  \/ InvalidateCache
  \/ Tick

Spec == Init /\ [][Next]_vars

\* one getAllUsers call on a fresh instance against every response of the
\* full sets
FirstCall(f) ==
  /\ nfetch = 0
  /\ Call(1, f)

NextFetch ==
  \/ \E f \in BOOLEAN : FirstCall(f)
  \/ ConnectOk(1)
  \/ \E e \in ConnectErrors : ConnectFail(1, e)
  \/ \E e \in SendErrors : SendFail(1, e)
  \/ \E res \in CursorResponses : CursorResponse(1, res)
  \/ \E res \in OffsetResponses : OffsetResponse(1, res)

SpecFetch == Init /\ [][NextFetch]_vars

\* a pending cds.connect.to or destination.send of the call resolves or
\* rejects; the directory answers with a prefix of its user list or without
\* Resources, with or without a token, with a small, a large or no total
Settles ==
  \/ ConnectOk(1)
  \/ \E e \in ConnectErrors : ConnectFail(1, e)
  \/ \E e \in SendErrors : SendFail(1, e)
  \/ \E res \in LiveCursorResponses : CursorResponse(1, res)
  \/ \E res \in LiveOffsetResponses : OffsetResponse(1, res)

NextLive ==
  \/ \E f \in BOOLEAN : FirstCall(f)
  \/ Settles

\* one getAllUsers call under the assumption that every pending remote
\* operation eventually resolves or rejects
SpecLive == Init /\ [][NextLive]_vars /\ WF_vars(Settles)

\* getAllUsers and company lookups of one caller against a directory of user
\* records: one call goes to the directory, the others are refused or read
\* the cache
NextCompany ==
  \/ \E f \in BOOLEAN :
       /\ nfetch = 0 \/ (~f /\ IsCacheValid)
       /\ Call(1, f)
  \/ \E n \in Companies, f \in BOOLEAN :
       /\ IsNoCompany(n) \/ nfetch = 0 \/ (~f /\ IsCacheValid)
       /\ GetUsersByCompany(1, n, f)
  \/ ConnectOk(1)
  \/ \E e \in ConnectErrors : ConnectFail(1, e)
  \/ \E e \in LeanSendErrors : SendFail(1, e)
  \/ \E res \in RecordCursorResponses : CursorResponse(1, res)
  \/ \E res \in RecordOffsetResponses : OffsetResponse(1, res)

SpecCompany == Init /\ [][NextCompany]_vars

\* ------------------------------------------------- the approver dialog
\* onOpenApproverDialog is called; it awaits _ensureApproverDialog
OnOpenApproverDialog(i) ==
  /\ opens[i].pc = "idle"
  /\ \A j \in 1..(i - 1) : opens[j].pc # "idle"
  /\ opens' = [opens EXCEPT ![i].pc = "ensure"]
  /\ UNCHANGED <<dlg, ui, iasVars, srvVars>>

\* the fragment is there: the invocation takes its token, sets busy, shows
\* the default approvers of the selected rows and starts the candidate fetch
EnsureOk(i, rows) ==
  /\ opens[i].pc = "ensure"
  /\ LET token == dlg.token + 1 IN
       /\ dlg' = [dlg EXCEPT !.token = token, !.busy = TRUE,
                             !.selected =
                               CalcDefaultApprovers(rows, LoadApproverCache)]
       /\ opens' = [opens EXCEPT ![i].pc = "fetch", ![i].token = token]
  /\ UNCHANGED <<ui, iasVars, srvVars>>

\* _ensureApproverDialog rejected: the invocation ends before its token
EnsureFail(i) ==
  /\ opens[i].pc = "ensure"
  /\ opens' = [opens EXCEPT ![i].pc = "failed"]
  /\ UNCHANGED <<dlg, ui, iasVars, srvVars>>

\* mutant of the continuation: the token is not compared
FetchSettledNoTokenCheck(i, oDbOptions, st) ==
  /\ dlg' = [dlg EXCEPT !.options = MergeOptions(oDbOptions),
                        !.busy = FALSE]
  /\ ui' = [ui EXCEPT !.open = TRUE, !.openedBy = opens[i].token]
  /\ opens' = [opens EXCEPT ![i] = [st EXCEPT !.pc = "applied"]]

\* mutant of the continuation: busy is left set
FetchSettledKeepBusy(i, oDbOptions, st) ==
  IF dlg.token # opens[i].token
  THEN /\ opens' = [opens EXCEPT ![i] = [st EXCEPT !.pc = "stale"]]
       /\ UNCHANGED <<dlg, ui>>
  ELSE /\ dlg' = [dlg EXCEPT !.options = MergeOptions(oDbOptions)]
       /\ ui' = [ui EXCEPT !.open = TRUE, !.openedBy = opens[i].token]
       /\ opens' = [opens EXCEPT ![i] = [st EXCEPT !.pc = "applied"]]

\* onOpenApproverDialog from the token comparison on, oDbOptions being what
\* the try/catch around the fetch left
FetchSettled(i, oDbOptions, st) ==
  IF dlg.token # opens[i].token
  THEN /\ opens' = [opens EXCEPT ![i] = [st EXCEPT !.pc = "stale"]]
       /\ UNCHANGED <<dlg, ui>>
  ELSE /\ dlg' = [dlg EXCEPT !.options = MergeOptions(oDbOptions),
                             !.busy = FALSE]
       /\ ui' = [ui EXCEPT !.open = TRUE, !.openedBy = opens[i].token]
       /\ opens' = [opens EXCEPT ![i] = [st EXCEPT !.pc = "applied"]]

\* _fetchApproverCandidatesFromBackend resolved with res
FetchOk(i, res) ==
  /\ opens[i].pc = "fetch"
  /\ FetchSettled(i, res, [opens[i] EXCEPT !.res = res])
  /\ UNCHANGED <<iasVars, srvVars>>

\* _fetchApproverCandidatesFromBackend rejected: the catch takes empty lists
FetchFail(i) ==
  /\ opens[i].pc = "fetch"
  /\ FetchSettled(i, EmptyCandidates, [opens[i] EXCEPT !.rejected = TRUE])
  /\ UNCHANGED <<iasVars, srvVars>>

\* onApproverDialogClose
OnApproverDialogClose ==
  /\ ui.open
  /\ ui' = [ui EXCEPT !.open = FALSE]
  /\ UNCHANGED <<dlg, opens, iasVars, srvVars>>

\* _saveApproverCache: the item holds the three picked objects
SavedCache(picks) ==
  [present |-> TRUE,
   slots |-> [s \in Slots |-> Val(picks[s].id, picks[s].name)]]

\* onApproverDialogSubmit, pressed in the open dialog
OnApproverDialogSubmit ==
  /\ ui.open
  /\ ui.sent + ui.toasts < MaxSubmits
  /\ LET v == ValidateApproversBeforeSubmit
         picks == [s \in Slots |-> PickIdNameFromOptions(s)]
     IN IF ~v.ok
        THEN ui' = [ui EXCEPT !.toasts = @ + 1, !.msg = v.msg]
        ELSE ui' = [ui EXCEPT !.payload = picks,
                              !.storage = SavedCache(picks),
                              !.sent = @ + 1,
                              !.open = FALSE]
  /\ UNCHANGED <<dlg, opens, iasVars, srvVars>>

NextDialog ==
  \/ \E i \in 1..MaxOpens : OnOpenApproverDialog(i)
  \/ \E i \in 1..MaxOpens, rows \in RowSelections : EnsureOk(i, rows)
  \/ \E i \in 1..MaxOpens : EnsureFail(i)
  \/ \E i \in 1..MaxOpens, res \in Candidates : FetchOk(i, res)
  \/ \E i \in 1..MaxOpens : FetchFail(i)
  \/ OnApproverDialogClose
  \/ OnApproverDialogSubmit

\* the dialog of a view whose localStorage is empty or holds an old item
InitDialog ==
  /\ InitIas
  /\ \E item \in {NoItem, OldCache} : InitDlg(item)
  /\ InitSrv(NewApplications)

SpecDialog == InitDialog /\ [][NextDialog]_vars

\* ------------------------------------------------- the application service
\* a submit, withdraw or discard request arrives: the handler awaits the BPA
\* call (init and the POST)
OnStatusAction(r, kind, app) ==
  /\ reqs[r].pc = "idle"
  /\ reqs' = [reqs EXCEPT ![r] = [IdleReq EXCEPT !.pc = "bpa", !.kind = kind,
                                                 !.key = app, !.called = TRUE]]
  /\ UNCHANGED <<db, remote, iasVars, dlgVars>>

\* the BPA call resolved: the handler awaits UPDATE(Applications, id)
BpaOk(r) ==
  /\ reqs[r].pc = "bpa"
  /\ remote' = [remote EXCEPT
                  !.bpa = @ \cup {<<reqs[r].key, BpaAction(reqs[r].kind)>>}]
  /\ reqs' = [reqs EXCEPT ![r].pc = "update", ![r].remoteOk = TRUE]
  /\ UNCHANGED <<db, iasVars, dlgVars>>

\* mutant of the failure path: the local update is made all the same
BpaFailStillUpdates(r) ==
  /\ reqs[r].pc = "bpa"
  /\ reqs' = [reqs EXCEPT ![r].pc = "update",
                          ![r].errors = Append(@, 500)]
  /\ UNCHANGED <<db, remote, iasVars, dlgVars>>

\* the BPA call threw (getDestination or the POST failed): the catch of the
\* handler reports 500
BpaFail(r) ==
  /\ reqs[r].pc = "bpa"
  /\ reqs' = [reqs EXCEPT ![r].pc = "done", ![r].errors = Append(@, 500)]
  /\ UNCHANGED <<db, remote, iasVars, dlgVars>>

\* the UPDATE resolved: the handler returns its message
UpdateOk(r) ==
  /\ reqs[r].pc = "update"
  /\ db' = [db EXCEPT !.status[reqs[r].key] = StatusAfter(reqs[r].kind)]
  /\ reqs' = [reqs EXCEPT ![r].pc = "done", ![r].result = reqs[r].kind]
  /\ UNCHANGED <<remote, iasVars, dlgVars>>

\* the UPDATE rejected: the catch reports 500
UpdateFail(r) ==
  /\ reqs[r].pc = "update"
  /\ reqs' = [reqs EXCEPT ![r].pc = "done", ![r].errors = Append(@, 500)]
  /\ UNCHANGED <<db, remote, iasVars, dlgVars>>

\* a delete request for the attachment ID arrives: the handler awaits
\* SELECT.one
OnDeleteAttachment(r, id) ==
  /\ reqs[r].pc = "idle"
  /\ reqs' = [reqs EXCEPT ![r] = [IdleReq EXCEPT !.pc = "select",
                                                 !.kind = "delete",
                                                 !.key = id]]
  /\ UNCHANGED <<db, remote, iasVars, dlgVars>>

\* SELECT.one resolved. Without a row req.error(404) is registered and the
\* handler goes on to read attachment.dmsDocumentId of null, which throws
\* before deleteFile is called; the catch reports 500
SelectDone(r) ==
  /\ reqs[r].pc = "select"
  /\ LET attachment == db.attachments[reqs[r].key] IN
       IF ~attachment.exists
       THEN reqs' = [reqs EXCEPT ![r].pc = "done",
                                 ![r].errors = @ \o <<404, 500>>]
       ELSE reqs' = [reqs EXCEPT ![r].pc = "dms",
                                 ![r].attachment = attachment,
                                 ![r].called = TRUE]
  /\ UNCHANGED <<db, remote, iasVars, dlgVars>>

\* DMSService.deleteFile resolved: the handler awaits DELETE
DmsDeleteOk(r) ==
  /\ reqs[r].pc = "dms"
  /\ remote' = [remote EXCEPT !.dms = @ \ {reqs[r].attachment.dmsDocumentId}]
  /\ reqs' = [reqs EXCEPT ![r].pc = "delete", ![r].remoteOk = TRUE]
  /\ UNCHANGED <<db, iasVars, dlgVars>>

\* mutant of the failure path: the row is deleted all the same
DmsDeleteFailStillDeletes(r) ==
  /\ reqs[r].pc = "dms"
  /\ reqs' = [reqs EXCEPT ![r].pc = "delete",
                          ![r].errors = Append(@, 500)]
  /\ UNCHANGED <<db, remote, iasVars, dlgVars>>

\* DMSService.deleteFile threw: the catch reports 500
DmsDeleteFail(r) ==
  /\ reqs[r].pc = "dms"
  /\ reqs' = [reqs EXCEPT ![r].pc = "done", ![r].errors = Append(@, 500)]
  /\ UNCHANGED <<db, remote, iasVars, dlgVars>>

\* DELETE.from(Attachments) resolved: the handler returns its message
DeleteOk(r) ==
  /\ reqs[r].pc = "delete"
  /\ db' = [db EXCEPT !.attachments[reqs[r].key] = NoAttachment]
  /\ reqs' = [reqs EXCEPT ![r].pc = "done", ![r].result = "delete"]
  /\ UNCHANGED <<remote, iasVars, dlgVars>>

\* DELETE rejected: the catch reports 500
DeleteFail(r) ==
  /\ reqs[r].pc = "delete"
  /\ reqs' = [reqs EXCEPT ![r].pc = "done", ![r].errors = Append(@, 500)]
  /\ UNCHANGED <<db, remote, iasVars, dlgVars>>

\* requests are handled concurrently
NextService ==
  \/ \E r \in 1..MaxRequests, k \in StatusKinds, a \in Apps :
       OnStatusAction(r, k, a)
  \/ \E r \in 1..MaxRequests : BpaOk(r)
  \/ \E r \in 1..MaxRequests : BpaFail(r)
  \/ \E r \in 1..MaxRequests : UpdateOk(r)
  \/ \E r \in 1..MaxRequests : UpdateFail(r)
  \/ \E r \in 1..MaxRequests, id \in AttachmentIds : OnDeleteAttachment(r, id)
  \/ \E r \in 1..MaxRequests : SelectDone(r)
  \/ \E r \in 1..MaxRequests : DmsDeleteOk(r)
  \/ \E r \in 1..MaxRequests : DmsDeleteFail(r)
  \/ \E r \in 1..MaxRequests : DeleteOk(r)
  \/ \E r \in 1..MaxRequests : DeleteFail(r)

SpecService == Init /\ [][NextService]_vars

\* ======================================================================
\* Properties
\* ======================================================================
InFlight == {"connect", "send"}

\* the calls there are in a state: those in progress and the last completed
Calls == {call[c] : c \in Callers} \cup {last}

RECURSIVE Flatten(_)
Flatten(ps) == IF ps = <<>> THEN <<>> ELSE Head(ps) \o Flatten(Tail(ps))

\* ---------------------------------------------------------------- C1
\* C1 as stated: a getAllUsers call without forceRefresh that follows another
\* one inside the TTL window, with no invalidateCache and no forced refresh
\* in between, issues no remote request and returns the same array (content
\* and object) as the first.
C1_SecondCallSameAsFirst ==
  \A st \in Calls :
    st.second => /\ st.pc = "returned"
                 /\ st.nreq = 0
                 /\ st.ret = st.ref.items
                 /\ st.retOid = st.ref.oid

\* C1 amended: the same, provided that no traversal that was already in
\* progress when the first call returned has stored its result in between.
C1_CacheValidity ==
  \A st \in Calls :
    st.second /\ st.refClean => /\ st.pc = "returned"
                                /\ st.nreq = 0
                                /\ st.ret = st.ref.items
                                /\ st.retOid = st.ref.oid

\* a second call has been served the array of a first one that came from the
\* directory, one tick after it was stored
C1_Witness ==
  /\ last.pc = "returned" /\ last.second /\ last.refClean /\ last.hit
  /\ last.ret # <<>>
  /\ now > cache.ts

\* ---------------------------------------------------------------- C2
\* C2: getAllUsers starts the offset traversal only when the cursor traversal
\* raised CURSOR_UNSUPPORTED; any other error of a cursor-mode request reaches
\* the caller and no further request is issued.
C2_FallbackOnlyOnCursorUnsupported ==
  \A st \in Calls : st.fallbacks > 0 => st.caught = CURSOR_UNSUPPORTED

\* ---------------------------------------------------------------- C3
\* the step in which the call of caller c ends
Ends(c) == call[c].pc \in InFlight /\ call'[c].pc = "idle"

\* C3: the cache is all-or-nothing. Whenever the cache changes, either
\* invalidateCache cleared it or a call came back from a complete traversal
\* and stored (now, its result); no step between two page requests and no
\* step in which a call ends by raising changes the cache.
C3_CacheAllOrNothing ==
  [][ /\ cache' # cache =>
           \/ cache' = NullCache /\ call' = call
           \/ \E c \in Callers :
                /\ call[c].pc \in InFlight \cup {"idle"}
                /\ call'[c].pc = "idle"
                /\ last'.who = c /\ last'.pc = "returned" /\ ~last'.hit
                /\ cache' = [ts |-> now, set |-> TRUE, items |-> last'.ret,
                             oid |-> last'.retOid]
      /\ \A c \in Callers :
           Ends(c) /\ last'.pc = "threw" => cache' = cache
      /\ \A c \in Callers :
           call[c].pc \in InFlight /\ call'[c].pc \in InFlight
             /\ call'[c] # call[c] => cache' = cache
    ]_vars

\* a forced refresh failed after a page had arrived, and the cache that was
\* valid when it began is still there
C3_Witness ==
  /\ last.pc = "threw" /\ last.force /\ last.class0 = "fresh"
  /\ Len(last.pages) > 0
  /\ cache.set /\ cache.items # <<>>

\* ---------------------------------------------------------------- C4
\* C4 as stated: without forceRefresh the cache is served exactly when it
\* holds a non-empty sequence younger than the TTL.
C4_ServedIffNonEmptyAndFresh ==
  \A st \in Calls :
    st.pc # "idle" /\ ~st.force => (st.hit <=> st.class0 = "fresh")

\* C4 amended: without forceRefresh the cache is served, with no remote
\* request, exactly when it holds a sequence (empty or not) younger than the
\* TTL; in every other state of the cache a traversal is run, and when it
\* returns its result is stored with the current timestamp and returned.
C4_AfterStep ==
  \A st \in Calls :
    st.pc # "idle" /\ ~st.force =>
      /\ st.hit <=> st.class0 \in {"fresh", "empty"}
      /\ st.hit => st.pc = "returned" /\ st.nreq = 0
      /\ ~st.hit => st.nreq >= 1

C4_CacheServedWhenYoungerThanTTL ==
  [][ /\ C4_AfterStep'
      /\ \A c \in Callers :
           /\ call[c].pc = "idle" /\ last'.who = c /\ last' # last
           /\ last'.hit
           => last'.ret = cache.items /\ last'.retOid = cache.oid
      /\ \A c \in Callers :
           Ends(c) /\ last'.pc = "returned" =>
             cache' = [ts |-> now, set |-> TRUE, items |-> last'.ret,
                       oid |-> last'.retOid]
    ]_vars

\* an empty cached sequence has been served one tick after it was stored
C4_Witness ==
  /\ last.pc = "returned" /\ ~last.force /\ last.hit
  /\ last.class0 = "empty" /\ last.ret = <<>>
  /\ cache.set /\ now > cache.ts

C6_NextCallAfterInvalidateFetches ==
  \A st \in Calls : st.afterInv => st.nreq >= 1 /\ ~st.hit

\* ---------------------------------------------------------------- C7
Min(a, b) == IF a < b THEN a ELSE b
Max(a, b) == IF a > b THEN a ELSE b

\* the responses the cursor traversal of st has received are N full pages
\* with a token each and then a shorter page without token
ShortPageEndsCursor(st) ==
  /\ st.mode = "cursor"
  /\ Len(st.pages) >= 1
  /\ \A i \in 1..(Len(st.pages) - 1) :
       Len(st.pages[i]) = PAGE_SIZE /\ st.toks[i]
  /\ Len(st.pages[Len(st.pages)]) < PAGE_SIZE
  /\ ~st.toks[Len(st.pages)]

\* C7: against N full pages with a token each and then a page of fewer than
\* PAGE_SIZE records without token, the cursor traversal has ended after
\* exactly N+1 requests and returned the N+1 pages concatenated in request
\* order: PAGE_SIZE*N + size of the last page records.
C7_CursorTermination ==
  \A st \in Calls :
    ShortPageEndsCursor(st) =>
      /\ st.pc = "returned"
      /\ st.nreq = Len(st.pages)
      /\ st.ret = Flatten(st.pages)
      /\ Len(st.ret) = PAGE_SIZE * (Len(st.pages) - 1)
                         + Len(st.pages[Len(st.pages)])

\* two full pages of different records and a page of one record came back
C7_Witness ==
  /\ ShortPageEndsCursor(last) /\ last.pc = "returned"
  /\ Len(last.pages) = 3
  /\ last.pages[1] # last.pages[2]
  /\ last.pages[1][1] # last.pages[1][2]
  /\ Len(last.pages[3]) = 1
  /\ Len(last.ret) = 2 * PAGE_SIZE + 1

\* ---------------------------------------------------------------- C8
\* the very first cursor response of st was a full page without token
FirstPageFullNoToken(st) ==
  \/ st.probe
  \/ /\ st.mode = "cursor" /\ Len(st.pages) >= 1
     /\ Len(st.pages[1]) = PAGE_SIZE /\ ~st.toks[1]

\* C8: when the very first cursor response is a full page without token, the
\* call has caught CURSOR_UNSUPPORTED and runs the offset traversal, once,
\* from startIndex=1 with an empty accumulator; what getAllUsers returns and
\* caches is the records of the offset responses only.
C8_CursorUnsupportedFallback ==
  \A st \in Calls :
    FirstPageFullNoToken(st) =>
      /\ st.mode = "offset"
      /\ st.caught = CURSOR_UNSUPPORTED
      /\ st.fallbacks = 1
      /\ Len(st.sent) >= 1
      /\ HasParam(st.sent[1], "startIndex")
      /\ Param(st.sent[1], "startIndex") = Num(1)
      /\ st.all = Flatten(st.pages)
      /\ st.pc = "returned" =>
           /\ st.ret = Flatten(st.pages)
           /\ cache.set /\ cache.items = st.ret /\ cache.oid = st.retOid

\* after the full page of the cursor attempt the offset traversal returned
\* two pages: three records, fewer than the cursor attempt plus these
C8_Witness ==
  /\ last.pc = "returned" /\ last.probe
  /\ Len(last.pages) = 2
  /\ Len(last.ret) = PAGE_SIZE + 1
  /\ cache.items = last.ret

\* ---------------------------------------------------------------- C9
\* totalResults as the loop reads it: Number(res?.totalResults ?? 0)
Reported(t) == IF t = NoTotal THEN 0 ELSE t

\* the k-th offset request carries startIndex = 1 + PAGE_SIZE*(k-1)
StartIndexSteps(st) ==
  \A k \in 1..Len(st.sent) :
    /\ HasParam(st.sent[k], "startIndex")
    /\ Param(st.sent[k], "startIndex") = Num(1 + PAGE_SIZE * (k - 1))

\* after n responses: the next startIndex exceeds the latest totalResults,
\* or the latest page was empty, or the iteration bound is reached
OffsetStopCondition(st) ==
  LET n == Len(st.pages) IN
    \/ 1 + PAGE_SIZE * n > Reported(st.ltotal)
    \/ Len(st.pages[n]) = 0
    \/ n = SAFETY_MAX

OffsetStopsExactlyThen(st) ==
  /\ st.pc = "returned" => Len(st.pages) >= 1 /\ OffsetStopCondition(st)
  /\ st.pc \in InFlight /\ Len(st.pages) >= 1 =>
       ~OffsetStopCondition(st) /\ Len(st.sent) = Len(st.pages) + 1

\* every response so far reported totalResults = T and carried the records
\* startIndex .. min(startIndex + PAGE_SIZE - 1, T)
ServesTotal(st, T) ==
  /\ Len(st.pages) >= 1
  /\ st.tconst = T
  /\ \A k \in 1..Len(st.pages) :
       Len(st.pages[k]) = Min(PAGE_SIZE, Max(0, T - PAGE_SIZE * (k - 1)))

Ceil(a, b) == (a + b - 1) \div b

\* C9 as stated: for every T the offset traversal issues ceil(T/PAGE_SIZE)
\* requests and returns T records. Only fallbacks on CURSOR_UNSUPPORTED are
\* looked at, so that a violation does not rest on the catch of other errors.
C9_CeilRequestsForEveryTotal ==
  \A st \in Calls :
    st.mode = "offset" /\ st.caught = CURSOR_UNSUPPORTED =>
      /\ StartIndexSteps(st)
      /\ OffsetStopsExactlyThen(st)
      /\ \A T \in 0..MaxTotal :
           st.pc = "returned" /\ ServesTotal(st, T) =>
             Len(st.sent) = Ceil(T, PAGE_SIZE) /\ Len(st.ret) = T

\* C9 amended: the k-th offset request carries startIndex
\* 1 + PAGE_SIZE*(k-1); the traversal stops exactly when the next startIndex
\* exceeds the latest totalResults, or a page is empty, or the iteration
\* bound is hit; for 1 <= T <= PAGE_SIZE * bound it issues ceil(T/PAGE_SIZE)
\* requests and returns T records.
C9_OffsetTermination ==
  \A st \in Calls :
    st.mode = "offset" =>
      /\ StartIndexSteps(st)
      /\ OffsetStopsExactlyThen(st)
      /\ \A T \in 1..(PAGE_SIZE * SAFETY_MAX) :
           st.pc = "returned" /\ ServesTotal(st, T) =>
             Len(st.sent) = Ceil(T, PAGE_SIZE) /\ Len(st.ret) = T

\* totalResults = 2*PAGE_SIZE + 1: three requests, the third page holds one
\* record (the scaled form of 250 records in pages of 100)
C9_Witness ==
  /\ last.pc = "returned" /\ last.mode = "offset"
  /\ ServesTotal(last, 2 * PAGE_SIZE + 1)
  /\ Len(last.sent) = 3
  /\ Param(last.sent[3], "startIndex") = Num(2 * PAGE_SIZE + 1)
  /\ Len(last.ret) = 2 * PAGE_SIZE + 1

\* ---------------------------------------------------------------- C10
\* every response the cursor traversal of st has received was a full page
\* with a next-page token
OnlyFullPagesWithToken(st) ==
  /\ st.mode = "cursor"
  /\ \A i \in 1..Len(st.pages) : Len(st.pages[i]) = PAGE_SIZE /\ st.toks[i]

\* C10: against a server that answers every request with a full page and a
\* token, the cursor traversal goes on until it has issued exactly
\* SAFETY_MAX requests, then ends without error and without fallback, and
\* getAllUsers returns and stores the records of all these pages.
C10_SafetyBound ==
  \A st \in Calls :
    OnlyFullPagesWithToken(st) =>
      /\ st.pc # "threw" /\ st.fallbacks = 0 /\ st.err = NoErr
      /\ st.pc \in InFlight =>
           Len(st.pages) < SAFETY_MAX /\ st.nreq = Len(st.pages) + 1
      /\ st.pc = "returned" =>
           /\ Len(st.pages) = SAFETY_MAX
           /\ st.nreq = SAFETY_MAX
           /\ st.ret = Flatten(st.pages)
           /\ Len(st.ret) = PAGE_SIZE * SAFETY_MAX
           /\ cache.set /\ cache.items = st.ret /\ cache.oid = st.retOid

\* the bound was hit and the accumulated pages are in the cache
C10_Witness ==
  /\ last.pc = "returned" /\ OnlyFullPagesWithToken(last)
  /\ Len(last.pages) = SAFETY_MAX
  /\ cache.items = last.ret /\ Len(cache.items) = PAGE_SIZE * SAFETY_MAX

\* ---------------------------------------------------------------- C11
\* C11: getUsersByCompany with companyName '' or undefined returns an empty
\* sequence at once, whatever forceRefresh is: the call issues no request and
\* is never suspended, no connection is resolved, and the cache (timestamp
\* and users) is what it was.
C11_EmptyCompanyReturnsEmpty ==
  [][ last' # last /\ last'.op = "getUsersByCompany"
        /\ last'.company \in {Absent, ""}
      => /\ last'.pc = "returned" /\ last'.out = <<>> /\ last'.nreq = 0
         /\ last'.err = NoErr /\ ~last'.hit
         /\ cache' = cache
         /\ destination' = destination
         /\ call' = call
         /\ nfetch' = nfetch
    ]_vars

\* a forced lookup with companyName '' came back while the cache held records
C11_Witness ==
  /\ last.op = "getUsersByCompany" /\ last.company = "" /\ last.force
  /\ last.pc = "returned" /\ last.out = <<>>
  /\ last.class0 = "fresh" /\ cache.set /\ cache.items # <<>>
  /\ destination = Handle

\* ---------------------------------------------------------------- C12
\* user carries customAttribute1 = n inside the attributes list of its
\* custom extension block
HasCompany(user, n) ==
  /\ user.ext.present
  /\ user.ext.attributes.present
  /\ \E i \in 1..Len(user.ext.attributes.list) :
       /\ user.ext.attributes.list[i].name = "customAttribute1"
       /\ user.ext.attributes.list[i].value = n

RECURSIVE MatchesInOrder(_, _)
MatchesInOrder(users, n) ==
  IF users = <<>> THEN <<>>
  ELSE (IF HasCompany(Head(users), n)
        THEN << [displayName |-> Head(users).displayName,
                 userName |-> Head(users).userName] >>
        ELSE <<>>) \o MatchesInOrder(Tail(users), n)

\* C12: for a non-empty companyName, getUsersByCompany returns exactly the
\* records of getAllUsers whose customAttribute1 value in the extension block
\* equals companyName (case-sensitive), in their order and projected to
\* {displayName, userName}; a record without the block, the list or the
\* entry never matches, and a lookup raises nothing but a transport error.
C12_CompanyFilter ==
  \A st \in Calls :
    st.op = "getUsersByCompany" /\ st.company \notin {Absent, ""} =>
      /\ st.pc = "returned" => st.out = MatchesInOrder(st.ret, st.company)
      /\ st.pc = "threw" => st.err \in ConnectErrors \cup SendErrors

\* a lookup of "ACME" over records with "ACME", with "acme", without the
\* block and without the list returned the one match
C12_Witness ==
  /\ last.op = "getUsersByCompany" /\ last.company = "ACME"
  /\ last.pc = "returned"
  /\ Len(last.ret) = 2 * PAGE_SIZE
  /\ \E i, j, k, l \in 1..Len(last.ret) :
       /\ last.ret[i].userName = "a1" /\ last.ret[j].userName = "a2"
       /\ last.ret[k].userName = "n0" /\ last.ret[l].userName = "n1"
  /\ last.out = << [displayName |-> "Upper", userName |-> "a1"] >>

\* ---------------------------------------------------------------- C13
\* C13: no getAllUsers or getUsersByCompany call ends with the error
\* CURSOR_UNSUPPORTED (what a call raises is a transport error), and a call
\* runs the offset traversal at most once.
C13_CursorUnsupportedNeverSurfaces ==
  \A st \in Calls :
    /\ st.err # CURSOR_UNSUPPORTED
    /\ st.pc = "threw" => st.err \in ConnectErrors \cup SendErrors
    /\ st.fallbacks <= 1

\* a lookup caught CURSOR_UNSUPPORTED, ran the offset traversal and ended
\* with the transport error of its second offset request
C13_Witness ==
  /\ last.op = "getUsersByCompany" /\ last.pc = "threw"
  /\ last.caught = CURSOR_UNSUPPORTED /\ last.fallbacks = 1
  /\ last.err \in SendErrors
  /\ Len(last.sent) = 2

\* ---------------------------------------------------------------- C14
\* the pending cds.connect.to of caller c resolves in this step
Resolves(c) ==
  /\ call[c].pc = "connect"
  /\ call'[c] = [call[c] EXCEPT !.pc = "send"]

\* C14: the connection is resolved lazily and once. No handle exists before
\* the first request; a resolution begins only while there is no handle; once
\* a resolution has succeeded the handle stays and no resolution completes
\* again; a resolution that fails leaves the handle as it was, so that the
\* next request resolves again.
C14_ConnectionResolvedOnce ==
  [][ /\ nfetch = 0 => destination = NoDest
      /\ \A c \in Callers :
           call[c].pc # "connect" /\ call'[c].pc = "connect"
             => destination = NoDest
      /\ destination # NoDest =>
           /\ destination' = destination
           /\ \A c \in Callers : ~Resolves(c)
      /\ \A c \in Callers :
           call[c].pc = "connect" /\ call'[c] # call[c] /\ ~Resolves(c)
             => destination' = destination
    ]_vars

\* ---------------------------------------------------------------- C15
\* C15: every cursor-mode request carries cursor, count = PAGE_SIZE and
\* attributes = the comma-joined allowlist; on the first request of a
\* traversal the cursor parameter is there with the empty string as value.
C15_CursorRequestParameters ==
  \A st \in Calls :
    st.mode = "cursor" =>
      \A k \in 1..Len(st.sent) :
        /\ HasParam(st.sent[k], "cursor")
        /\ HasParam(st.sent[k], "count")
        /\ HasParam(st.sent[k], "attributes")
        /\ Param(st.sent[k], "count") = Num(PAGE_SIZE)
        /\ Param(st.sent[k], "attributes") = Str(USER_ATTRS)
        /\ k = 1 => Param(st.sent[k], "cursor") = Str("")

\* ---------------------------------------------------------------- C16
\* C16: within a traversal at most one page request is outstanding: request
\* k+1 exists only when response k has arrived, and when response k carried
\* a next-page token, request k+1 carries that token as its cursor.
C16_SequentialPagination ==
  \A st \in Calls :
    st.mode \in {"cursor", "offset"} =>
      /\ Len(st.sent) \in {Len(st.pages), Len(st.pages) + 1}
      /\ st.pc \in InFlight =>
           Len(st.sent) = Len(st.pages) + 1 /\ st.req = st.sent[Len(st.sent)]
      /\ st.pc = "returned" => Len(st.sent) = Len(st.pages)
      /\ /\ st.mode = "cursor"
         /\ Len(st.pages) >= 1
         /\ st.toks[Len(st.pages)]
         /\ Len(st.sent) > Len(st.pages)
         => /\ HasParam(st.sent[Len(st.pages) + 1], "cursor")
            /\ Param(st.sent[Len(st.pages) + 1], "cursor").s \in st.ltoks

\* the third request of a cursor traversal carries the token of the second
\* response, which is not the token of the first
C16_Witness ==
  \E c \in Callers :
    /\ call[c].pc = "send" /\ call[c].mode = "cursor"
    /\ Len(call[c].sent) = 3 /\ Len(call[c].pages) = 2
    /\ call[c].toks[1] /\ call[c].toks[2]
    /\ Param(call[c].sent[2], "cursor") = Str("c1")
    /\ Param(call[c].sent[3], "cursor") = Str("c2")
    /\ call[c].ltoks = {"c2"}

\* ---------------------------------------------------------------- C17
\* the pair _setCache stores at the end of the call that has just completed
WrittenByLast ==
  [ts |-> now, set |-> TRUE, items |-> last'.ret, oid |-> last'.retOid]

\* C17: concurrent getAllUsers calls are not serialized. Each call that
\* comes back from its own traversal stores its result, over whatever an
\* earlier finisher stored, and the timestamp and the users of the cache
\* only ever change together: by the _setCache of one call or by a clear.
C17_LastWriteWins ==
  [][ /\ \A c \in Callers :
           Ends(c) /\ last'.pc = "returned" =>
             /\ last'.who = c /\ ~last'.hit
             /\ cache' = WrittenByLast
      /\ \/ cache'.ts # cache.ts
         \/ cache'.items # cache.items
         \/ cache'.oid # cache.oid
         \/ cache'.set # cache.set
         => \/ /\ cache' = NullCache
               /\ call' = call
            \/ /\ \E c \in Callers : Ends(c)
               /\ last'.pc = "returned"
               /\ cache' = WrittenByLast
    ]_vars

\* two calls began on the cold cache; the one that began second returned and
\* stored first, then the one that began first stored its own array over it
C17_Witness ==
  /\ nfetch = 2 /\ \A c \in Callers : call[c].pc = "idle"
  /\ last.pc = "returned" /\ ~last.hit /\ ~last.force
  /\ last.class0 = "null" /\ last.oid[1] = 1
  /\ first.active /\ ~first.clean /\ first.oid[1] = 2
  /\ first.items # last.ret
  /\ cache.items = last.ret /\ cache.oid = last.retOid

\* ---------------------------------------------------------------- C18
\* C18: a cursor traversal that does not raise CURSOR_UNSUPPORTED ends at
\* the first response without next-page token, also when that response is a
\* full page on the second or a later request: no request follows it, and
\* the requests are one more than the responses that carried a token.
C18_EndsAtFirstTokenlessResponse ==
  \A st \in Calls :
    /\ st.mode = "cursor"
    /\ \E i \in 1..Len(st.pages) : ~st.toks[i]
    => /\ st.pc = "returned"
       /\ \A i \in 1..(Len(st.pages) - 1) : st.toks[i]
       /\ Len(st.sent) = Len(st.pages)
       /\ st.nreq = 1 + Cardinality({i \in 1..Len(st.pages) : st.toks[i]})

\* ---------------------------------------------------------------- C19
\* C19: a getAllUsers call whose remote operations all resolve or reject
\* ends, by returning or by raising; its cursor traversal issues at most
\* SAFETY_MAX requests and its offset traversal at most SAFETY_MAX requests.
C19_CallTerminates ==
  /\ [](\A st \in Calls :
          /\ Len(st.sent) <= SAFETY_MAX
          /\ st.safety <= SAFETY_MAX + 1
          /\ st.nreq <= 2 * SAFETY_MAX)
  /\ (call[1].pc \in InFlight) ~> (call[1].pc = "idle" /\ last.pc \in {"returned", "threw"})

\* a call ended after a full cursor page without token and an offset
\* traversal that went up to the iteration bound
C19_Witness ==
  /\ last.pc = "returned" /\ last.mode = "offset" /\ last.probe
  /\ last.safety = SAFETY_MAX + 1
  /\ Len(last.sent) = SAFETY_MAX
  /\ last.nreq = SAFETY_MAX + 1

\* ---------------------------------------------------------------- C20
\* C20: after invalidateCache the cache stays empty (timestamp 0, no users)
\* as long as no getAllUsers call has begun since: a traversal that was in
\* flight when invalidateCache ran does not store its result.
C20_InvalidatedCacheStaysEmpty ==
  invPending => ~cache.set /\ cache.ts = 0 /\ cache.items = <<>>

\* ---------------------------------------------------------------- C21
\* C21: a response without Resources array adds no record and raises no
\* error. In cursor mode the traversal goes on with the token of that
\* response when it carries one (up to the iteration bound) and returns when
\* it carries none; in offset mode the traversal returns at that page. What
\* is returned is the records of the earlier pages.
C21_MissingResourcesIsEmptyPage ==
  \A st \in Calls :
    st.lnores =>
      LET n == Len(st.pages) IN
      /\ n >= 1 /\ st.pages[n] = <<>>
      /\ st.all = Flatten(SubSeq(st.pages, 1, n - 1))
      /\ st.pc # "threw" /\ st.err = NoErr
      /\ st.mode = "cursor" =>
           /\ st.caught = NoErr /\ st.fallbacks = 0
           /\ st.toks[n] =>
                \/ st.pc \in InFlight /\ Len(st.sent) = n + 1
                \/ st.pc = "returned" /\ n = SAFETY_MAX
           /\ ~st.toks[n] => st.pc = "returned"
      /\ st.mode = "offset" => st.pc = "returned"
      /\ st.pc = "returned" => st.ret = Flatten(SubSeq(st.pages, 1, n - 1))

\* the second response of a cursor traversal had a token and no Resources:
\* the third request is out and the records of the first page are kept
C21_Witness ==
  \E c \in Callers :
    /\ call[c].lnores /\ call[c].mode = "cursor" /\ call[c].pc = "send"
    /\ Len(call[c].pages) = 2 /\ Len(call[c].sent) = 3
    /\ Len(call[c].all) = PAGE_SIZE

\* ---------------------------------------------------------------- C22
\* C22: the next-page token taken from a response is the first non-empty
\* value among nextCursor, NextCursor, next_cursor, in this order: it is the
\* cursor of the traversal from then on and of the next request. A response
\* whose three fields are all absent or empty has no token: a short page
\* ends the traversal and no new cursor is sent.
C22_TokenPriority ==
  \A st \in Calls :
    st.mode = "cursor" /\ Len(st.pages) >= 1 =>
      LET n == Len(st.pages) IN
      /\ st.lprio # <<>> =>
           /\ st.cursor = st.lprio[1]
           /\ st.pc \in InFlight =>
                /\ HasParam(st.req, "cursor")
                /\ Param(st.req, "cursor") = Str(st.lprio[1])
      /\ st.lprio = <<>> =>
           /\ Len(st.pages[n]) < PAGE_SIZE => st.pc = "returned"
           /\ st.pc \in InFlight => st.req = st.sent[n]

\* a response carried c2 as nextCursor and c1 under the other spellings: the
\* request that follows carries c2
C22_Witness ==
  \E c \in Callers :
    /\ call[c].pc = "send" /\ call[c].mode = "cursor"
    /\ call[c].lprio = <<"c2", "c1", "c1">>
    /\ Param(call[c].req, "cursor") = Str("c2")

\* ---------------------------------------------------------------- C23
\* the lists of options are the candidates of res: per slot the same ids,
\* each id once, each entry one of the entries the backend sent
SameCandidates(options, res) ==
  \A s \in Slots :
    LET l == IF res[s].present THEN res[s].list ELSE <<>> IN
    /\ {options[s][k].id : k \in 1..Len(options[s])}
         = {l[k].id : k \in 1..Len(l)}
    /\ \A j, k \in 1..Len(options[s]) :
         options[s][j].id = options[s][k].id => j = k
    /\ \A k \in 1..Len(options[s]) : \E j \in 1..Len(l) : options[s][k] = l[j]

\* the candidate fetch of invocation i settles in this step
FetchSettles(i) == opens[i].pc = "fetch" /\ opens'[i].pc # "fetch"

\* C23: an onOpenApproverDialog invocation takes the token one greater than
\* the current one. An invocation whose fetch settles after a later
\* invocation took a newer token writes nothing to /options, leaves busy and
\* does not open the dialog; /options and the opening of the dialog change
\* only by the invocation with the latest token, which applies its own
\* candidates.
C23_StaleResponseSuppressed ==
  [][ /\ \A i \in 1..MaxOpens :
           /\ opens[i].pc = "ensure" /\ opens'[i].pc = "fetch" =>
                /\ opens'[i].token = dlg.token + 1
                /\ dlg'.token = dlg.token + 1
           /\ FetchSettles(i) /\ opens[i].token # dlg.token =>
                /\ dlg' = dlg
                /\ ui' = ui
                /\ opens'[i].pc = "stale"
           /\ FetchSettles(i) /\ opens[i].token = dlg.token =>
                /\ opens'[i].pc = "applied"
                /\ SameCandidates(dlg'.options, opens'[i].res)
                /\ ui'.open /\ ui'.openedBy = opens[i].token
      /\ dlg'.options # dlg.options \/ ui'.openedBy # ui.openedBy =>
           \E i \in 1..MaxOpens :
             FetchSettles(i) /\ opens[i].token = dlg.token
    ]_vars

\* the fetch of the first invocation brought candidates but settled stale;
\* the dialog shows the other candidates of the second invocation
C23_Witness ==
  /\ opens[1].pc = "stale" /\ opens[1].token = 1
  /\ opens[1].res["approver1"].present
  /\ Len(opens[1].res["approver1"].list) = 3
  /\ opens[2].pc = "applied" /\ opens[2].token = 2
  /\ Len(opens[2].res["approver1"].list) = 1
  /\ Len(dlg.options["approver1"]) = 1
  /\ dlg.token = 2 /\ ~dlg.busy /\ ui.open /\ ui.openedBy = 2

\* ---------------------------------------------------------------- C24
\* onApproverDialogSubmit runs in this step
Submits == ui'.sent + ui'.toasts = ui.sent + ui.toasts + 1

\* approver1 is selected, and every selected id is a candidate of its slot
SelectionIsValid ==
  /\ dlg.selected["approver1"].id # ""
  /\ \A s \in Slots :
       dlg.selected[s].id # "" =>
         \E k \in 1..Len(dlg.options[s]) :
           dlg.options[s][k].id = dlg.selected[s].id

\* C24: onApproverDialogSubmit saves the approver cache and sends the payload
\* exactly when approver1 is selected and every non-empty selected id is the
\* id of a candidate of its slot; each non-empty id of the payload then
\* comes with the name of that candidate. Otherwise nothing is saved or
\* sent and the dialog stays open.
C24_SubmitOnlyValidSelection ==
  [][ Submits =>
        IF SelectionIsValid
        THEN /\ ui'.sent = ui.sent + 1
             /\ \A s \in Slots :
                  /\ ui'.payload[s].id = dlg.selected[s].id
                  /\ dlg.selected[s].id = "" => ui'.payload[s].name = ""
                  /\ dlg.selected[s].id # "" =>
                       \E k \in 1..Len(dlg.options[s]) :
                         dlg.options[s][k] = ui'.payload[s]
                  /\ ui'.storage.present
                  /\ ui'.storage.slots[s].id = ui'.payload[s].id
                  /\ ui'.storage.slots[s].name = ui'.payload[s].name
             /\ ~ui'.open
        ELSE /\ ui'.sent = ui.sent
             /\ ui'.payload = ui.payload
             /\ ui'.storage = ui.storage
             /\ ui.open /\ ui'.open
             /\ ui'.toasts = ui.toasts + 1
    ]_vars

\* approver "a", shown under the name of the old cache, was sent with the
\* name of its candidate, together with approver3 and no approver2
C24_Witness ==
  /\ ui.sent = 1
  /\ dlg.selected["approver1"] = [id |-> "a", name |-> "Old A"]
  /\ ui.payload["approver1"] = [id |-> "a", name |-> "A2"]
  /\ ui.payload["approver2"] = NoSel
  /\ ui.payload["approver3"] = [id |-> "b", name |-> "B"]
  /\ ui.storage.slots["approver1"].name = "A2"
  /\ ~ui.open

\* ---------------------------------------------------------------- C25
\* status_code as the handler of kind is to write it
Written(kind) ==
  CASE kind = "submit" -> "SUBMITTED"
    [] kind = "withdraw" -> "WITHDRAWN"
    [] kind = "discard" -> "DISCARDED"
    [] OTHER -> "?"

\* the BPA action of the handler of kind has been performed for app
BpaDid(kind, app) ==
  \/ kind = "submit" /\ <<app, "Submit">> \in remote.bpa
  \/ kind = "withdraw" /\ <<app, "Withdraw">> \in remote.bpa
  \/ kind = "discard" /\ <<app, "Discard">> \in remote.bpa

\* C25: the submit, withdraw and discard handlers write the local status
\* (SUBMITTED, WITHDRAWN, DISCARDED) only after their BPA call succeeded; a
\* handler whose BPA call fails makes no update, leaves the status as it is
\* and reports the error 500.
C25_StatusUpdateAfterBpa ==
  [][ /\ \A a \in Apps :
           db'.status[a] # db.status[a] =>
             \E r \in 1..MaxRequests :
               /\ reqs[r].pc = "update" /\ reqs'[r].pc = "done"
               /\ reqs[r].key = a /\ reqs[r].kind \in StatusKinds
               /\ BpaDid(reqs[r].kind, a)
               /\ db'.status[a] = Written(reqs[r].kind)
      /\ \A r \in 1..MaxRequests :
           /\ reqs[r].pc = "update" => reqs[r].remoteOk
           /\ reqs[r].pc = "bpa" /\ reqs'[r].pc # "bpa" /\ ~reqs'[r].remoteOk =>
                /\ db' = db
                /\ reqs'[r].pc = "done"
                /\ reqs'[r].errors = <<500>>
                /\ reqs'[r].result = ""
    ]_vars

\* a submit whose BPA call failed ended with 500 and without update, while
\* the discard of the other request went through
C25_Witness ==
  /\ reqs[1].pc = "done" /\ reqs[1].kind = "submit"
  /\ ~reqs[1].remoteOk /\ reqs[1].errors = <<500>>
  /\ <<"A1", "Submit">> \notin remote.bpa
  /\ reqs[2].pc = "done" /\ reqs[2].kind = "discard" /\ reqs[2].errors = <<>>
  /\ db.status["A1"] = "DISCARDED"

\* ---------------------------------------------------------------- C26
\* C26: the delete handler removes the Attachments row only after DMS
\* deleted the document. Without a row DMS is not called, nothing is deleted
\* and an error is reported; when the DMS deletion fails the row stays and
\* an error is reported.
C26_DeleteRowAfterDms ==
  [][ /\ db'.attachments # db.attachments =>
           \E r \in 1..MaxRequests :
             /\ reqs[r].pc = "delete" /\ reqs'[r].pc = "done"
             /\ reqs[r].kind = "delete" /\ reqs[r].remoteOk
             /\ reqs[r].attachment.dmsDocumentId \notin remote.dms
             /\ \A i \in AttachmentIds \ {reqs[r].key} :
                  db'.attachments[i] = db.attachments[i]
      /\ \A r \in 1..MaxRequests :
           /\ /\ reqs[r].pc = "select" /\ reqs'[r].pc # "select"
              /\ ~db.attachments[reqs[r].key].exists
              => /\ reqs'[r].pc = "done"
                 /\ ~reqs'[r].called
                 /\ reqs'[r].errors # <<>> /\ reqs'[r].result = ""
                 /\ db' = db /\ remote' = remote
           /\ reqs[r].pc = "dms" /\ reqs'[r].pc # "dms" /\ ~reqs'[r].remoteOk =>
                /\ db' = db /\ remote' = remote
                /\ reqs'[r].pc = "done"
                /\ reqs'[r].errors = <<500>> /\ reqs'[r].result = ""
           /\ reqs[r].kind = "delete" /\ reqs[r].pc \in {"dms", "delete"} =>
                reqs[r].called
    ]_vars

\* the request for the missing row att2 ended with errors and without DMS
\* call; the request for att1 ended with 500 after DMS failed, and the row
\* and the document are still there
C26_Witness ==
  /\ reqs[1].pc = "done" /\ reqs[1].kind = "delete" /\ reqs[1].key = "att2"
  /\ ~reqs[1].called /\ reqs[1].errors = <<404, 500>>
  /\ reqs[2].pc = "done" /\ reqs[2].kind = "delete" /\ reqs[2].key = "att1"
  /\ reqs[2].called /\ ~reqs[2].remoteOk /\ reqs[2].errors = <<500>>
  /\ db.attachments["att1"].exists /\ "doc1" \in remote.dms

\* ---------------------------------------------------------------- C27
\* no candidate fetch is pending
AllFetchesSettled == \A i \in 1..MaxOpens : opens[i].pc # "fetch"

\* C27: when every candidate fetch that was started has settled, busy is
\* false and the dialog has been opened by the latest invocation, with the
\* candidates of that invocation as options; when its fetch was rejected the
\* options are three empty lists and the dialog has been opened all the same.
C27_OpenCompletes ==
  AllFetchesSettled /\ dlg.token > 0 =>
    /\ ~dlg.busy
    /\ ui.openedBy = dlg.token
    /\ \E i \in 1..MaxOpens :
         /\ opens[i].token = dlg.token
         /\ opens[i].pc = "applied"
         /\ ~opens[i].rejected => SameCandidates(dlg.options, opens[i].res)
         /\ opens[i].rejected => \A s \in Slots : dlg.options[s] = <<>>

\* the fetch of the first invocation brought candidates and applied them,
\* the fetch of the second was rejected: the dialog is open with empty lists
C27_Witness ==
  /\ AllFetchesSettled /\ dlg.token = 2
  /\ opens[1].pc = "applied" /\ Len(opens[1].res["approver1"].list) = 3
  /\ opens[2].pc = "applied" /\ opens[2].rejected
  /\ \A s \in Slots : dlg.options[s] = <<>>
  /\ ~dlg.busy /\ ui.open /\ ui.openedBy = 2

====
